---- MODULE Spec2Model ----
(***************************************************************************)
(* Model of rfwave/attention.py: the masking helpers, the rotary-embedding *)
(* helpers, FeedForward's hidden width, and the shapes and failures of     *)
(* CrossAttention / Attention.                                             *)
(*                                                                         *)
(* The functions of the file are pure; each action below is one call.     *)
(* `op` is the function last called, `args` its arguments and `result`     *)
(* what it returned:  [ok |-> TRUE, err |-> "", val |-> v]  for a return,  *)
(* [ok |-> FALSE, err |-> <exception>, val |-> <<>>]  for a raise.         *)
(* `module` is the attention module object last constructed; `pc` is      *)
(* "call" while the call is pending and "done" once it has returned.       *)
(*                                                                         *)
(* Tensors are nested sequences (index j of the code is index j+1 here);   *)
(* where only the shape matters a tensor is its shape, a sequence of       *)
(* dimension sizes.                                                        *)
(***************************************************************************)
EXTENDS Integers, Sequences, FiniteSets, TLC

VARIABLES module, op, args, result, pc

vars == <<module, op, args, result, pc>>

(* ---------------------------------------------------------------- bounds *)
MaxBatch == 2        \* batch sizes 1..MaxBatch
MaxLen == 5          \* sequence lengths and mask widths 0..MaxLen
MaxStart == 1        \* start positions 0..MaxStart
MaxScaleNum == 3     \* scale numerators 0..MaxScaleNum (denominators 1, 2)
MaxPosLen == 4       \* get_pos_embed_indices length 0..MaxPosLen
MaxPos == 3          \* max_pos 1..MaxPos
MaxFFDim == 6        \* FeedForward dim 1..MaxFFDim
MaxMultiple == 4     \* multiple_of 1..MaxMultiple
MaxHidden == 3       \* explicit hidden_dim 0..MaxHidden
MaxRank == 5         \* tensor ranks 0..MaxRank handed to reshape_for_broadcast
MaxSize == 2         \* dimension sizes 1..MaxSize of those tensors
MaxFreqDim == 6      \* precompute_freqs_cis dim 1..MaxFreqDim
MaxEnd == 3          \* precompute_freqs_cis end 0..MaxEnd
MaxPairs == 2        \* rotated pairs per vector: last dimension 2..2*MaxPairs
MaxDim == 4          \* CrossAttention dim 1..MaxDim
MaxHeads == 3        \* CrossAttention num_heads 1..MaxHeads
MaxSeq == 2          \* query and key/value lengths 0..MaxSeq

(* --------------------------------------------------------------- results *)
Return(v) == [ok |-> TRUE, err |-> "", val |-> v]
Raise(e) == [ok |-> FALSE, err |-> e, val |-> <<>>]

\* Python's None for an optional integer / an optional tensor
NoneInt == [none |-> TRUE, v |-> 0]
SomeInt(n) == [none |-> FALSE, v |-> n]
NoneTensor == [none |-> TRUE, v |-> <<>>]
SomeTensor(t) == [none |-> FALSE, v |-> t]

(* ------------------------------------------------------- tensor plumbing *)
RECURSIVE SeqMax(_)
\* Tensor.max() of a non-empty 1-d integer tensor
SeqMax(s) ==
    IF Len(s) = 1 THEN s[1]
    ELSE LET m == SeqMax(Tail(s)) IN IF s[1] > m THEN s[1] ELSE m

\* the float values a mask holds
Zero == "0.0"
NegInf == "-inf"

\* t.unsqueeze(1).unsqueeze(2) of a 2-d tensor: (B, L) -> (B, 1, 1, L)
Unsqueeze12(t) == [i \in 1..Len(t) |-> << << t[i] >> >>]

\* torch.zeros_like(m) followed by masked_fill_(where, -inf), where `where`
\* is a 2-d boolean tensor
ZerosMaskedFill(where) ==
    [i \in 1..Len(where) |->
        [j \in 1..Len(where[i]) |-> IF where[i][j] THEN NegInf ELSE Zero]]

\* ~m of a 2-d boolean tensor
Invert(m) == [i \in 1..Len(m) |-> [j \in 1..Len(m[i]) |-> ~m[i][j]]]

(* ------------------------------------------------------ masking helpers *)
\* sequence_mask with the comparison off by one (x <= length)
sequence_mask_le(length, max_length) ==
    LET M == IF max_length.none THEN SeqMax(length) ELSE max_length.v
    IN  [i \in 1..Len(length) |-> [j \in 1..M |-> (j - 1) <= length[i]]]

\* sequence_mask(length, max_length=None)
sequence_mask(length, max_length) ==
    LET M == IF max_length.none THEN SeqMax(length) ELSE max_length.v
    IN  [i \in 1..Len(length) |-> [j \in 1..M |-> (j - 1) < length[i]]]

\* score_mask filling a large finite negative instead of -inf
score_mask_finite(length, max_length) ==
    LET seq_mask == sequence_mask(length, max_length)
    IN  Unsqueeze12([i \in 1..Len(seq_mask) |->
            [j \in 1..Len(seq_mask[i]) |->
                IF ~seq_mask[i][j] THEN "-1e9" ELSE Zero]])

\* score_mask(length, max_length=None)
score_mask(length, max_length) ==
    LET seq_mask == sequence_mask(length, max_length)
        sco_mask == ZerosMaskedFill(Invert(seq_mask))
    IN  Unsqueeze12(sco_mask)

\* score_mask_from_bool_mask filling where the mask is false
score_mask_from_bool_mask_inv(bool_mask) ==
    Unsqueeze12(ZerosMaskedFill(Invert(bool_mask)))

\* score_mask_from_bool_mask(bool_mask)
score_mask_from_bool_mask(bool_mask) ==
    LET phone_mask == ZerosMaskedFill(bool_mask)
    IN  Unsqueeze12(phone_mask)

(* -------------------------------------------------- position indices *)
\* t.long() of the float n/d: truncation toward zero
Long(n, d) == IF n >= 0 THEN n \div d ELSE -((-n) \div d)

\* get_pos_embed_indices without the clamp of line 116
get_pos_embed_indices_noclamp(start, length, max_pos, scale) ==
    [i \in 1..Len(start) |->
        [j \in 1..length |-> start[i] + Long((j - 1) * scale[i].n, scale[i].d)]]

\* get_pos_embed_indices(start, length, max_pos, scale=1.); scale is the
\* per-row float tensor of line 111, each entry the fraction n/d
get_pos_embed_indices(start, length, max_pos, scale) ==
    LET pos == [i \in 1..Len(start) |->
                  [j \in 1..length |->
                      start[i] + Long((j - 1) * scale[i].n, scale[i].d)]]
    IN  [i \in 1..Len(start) |->
            [j \in 1..length |->
                IF pos[i][j] < max_pos THEN pos[i][j] ELSE max_pos - 1]]

(* ------------------------------------------------------------ FeedForward *)
\* the hidden width rounded down to a multiple instead of up
FeedForward_hidden_floor(dim, hidden_dim, multiple_of) ==
    IF hidden_dim.none
    THEN multiple_of * (((2 * (4 * dim)) \div 3) \div multiple_of)
    ELSE hidden_dim.v

\* FeedForward.__init__: the hidden width of w1, w2 and w3.
\* int(2 * hidden_dim / 3) truncates the float quotient.
FeedForward_hidden(dim, hidden_dim, multiple_of) ==
    IF hidden_dim.none
    THEN LET h0 == 4 * dim
             h1 == Long(2 * h0, 3)
         IN  multiple_of * ((h1 + multiple_of - 1) \div multiple_of)
    ELSE hidden_dim.v

(* ---------------------------------------------------- rotary broadcasting *)
\* reshape_for_broadcast whose final branch returns the table unchanged
reshape_for_broadcast_lenient(freqs_cis, x) ==
    LET ndim == Len(x)
    IN  IF ndim = 4 /\ freqs_cis = <<x[1], x[2], x[ndim]>>
        THEN Return([i \in 1..ndim |-> IF i \in {1, 2, ndim} THEN x[i] ELSE 1])
        ELSE Return(freqs_cis)

\* reshape_for_broadcast(freqs_cis, x) on the shapes of its arguments
reshape_for_broadcast(freqs_cis, x) ==
    LET ndim == Len(x)
    IN  IF ~(0 <= 1 /\ 1 < ndim) THEN Raise("AssertionError")
        ELSE IF ndim = 4
        THEN IF freqs_cis # <<x[1], x[2], x[ndim]>>
             THEN Raise("AssertionError")
             ELSE Return([i \in 1..ndim |->
                             IF i \in {1, 2, ndim} THEN x[i] ELSE 1])
        ELSE IF ndim = 3
        THEN IF freqs_cis # x THEN Raise("AssertionError")
             ELSE Return(freqs_cis)
        ELSE Raise("ValueError")

(* ------------------------------------------------------- rotary tables *)
\* precompute_freqs_cis(dim, end) with the default theta and
\* theta_rescale_factor.  Line 32 divides dim by (dim - 2) before anything
\* else; Python raises ZeroDivisionError when dim = 2.  torch.arange(0, dim,
\* 2)[: dim // 2] holds dim // 2 frequencies; an entry of the table is kept as
\* the term fn(t * f_k), fn one of cos and sin, t the row and k the frequency.
precompute_freqs_cis(dim, end) ==
    IF dim - 2 = 0 THEN Raise("ZeroDivisionError")
    ELSE LET half == dim \div 2
             freqs_cos == [t \in 1..end |->
                 [k \in 1..half |-> [fn |-> "cos", t |-> t - 1, k |-> k - 1]]]
             freqs_sin == [t \in 1..end |->
                 [k \in 1..half |-> [fn |-> "sin", t |-> t - 1, k |-> k - 1]]]
         IN  Return([t \in 1..end |-> freqs_cos[t] \o freqs_sin[t]])

(* ----------------------------------------------------- rotary application *)
\* fractions n/d, d > 0
Frac(n, d) == [n |-> n, d |-> d]
FracSub(a, b) == Frac(a.n * b.d - b.n * a.d, a.d * b.d)
FracAdd(a, b) == Frac(a.n * b.d + b.n * a.d, a.d * b.d)
\* an integer x times the fraction a
FracScale(x, a) == Frac(x * a.n, a.d)

\* apply_rotary_emb pairing element k with element k + D/2 (rotate-half
\* layout) instead of the interleaved elements (2k, 2k+1)
apply_rotary_emb_halves(x, freqs_cis) ==
    IF freqs_cis.none THEN x
    ELSE [b \in 1..Len(x) |-> [t \in 1..Len(x[b]) |->
            LET D == Len(x[b][t])
                half == D \div 2
                c(k) == freqs_cis.v[b][t][k]
                s(k) == freqs_cis.v[b][t][half + k]
            IN  [e \in 1..D |->
                    IF e <= half
                    THEN FracSub(FracScale(x[b][t][e], c(e)),
                                 FracScale(x[b][t][half + e], s(e)))
                    ELSE FracAdd(FracScale(x[b][t][e - half], s(e - half)),
                                 FracScale(x[b][t][e], c(e - half)))]]]

\* apply_rotary_emb(x, freqs_cis) on a rank-3 tensor x of integers whose last
\* dimension is even and a table of fractions of the same shape: x_r and x_i
\* are the even and odd elements (reshape(..., -1, 2).unbind(-1)), freqs_cos
\* and freqs_sin the two halves of the table (torch.chunk), and the output
\* interleaves x_out_r and x_out_i again (stack(..., -1).flatten).
apply_rotary_emb(x, freqs_cis) ==
    IF freqs_cis.none THEN x
    ELSE [b \in 1..Len(x) |-> [t \in 1..Len(x[b]) |->
            LET D == Len(x[b][t])
                half == D \div 2
                x_r(k) == x[b][t][2 * k - 1]
                x_i(k) == x[b][t][2 * k]
                freqs_cos(k) == freqs_cis.v[b][t][k]
                freqs_sin(k) == freqs_cis.v[b][t][half + k]
                x_out_r(k) == FracSub(FracScale(x_r(k), freqs_cos(k)),
                                      FracScale(x_i(k), freqs_sin(k)))
                x_out_i(k) == FracAdd(FracScale(x_r(k), freqs_sin(k)),
                                      FracScale(x_i(k), freqs_cos(k)))
            IN  [e \in 1..D |->
                    IF e % 2 = 1 THEN x_out_r((e + 1) \div 2)
                    ELSE x_out_i(e \div 2)]]]

(* -------------------------------------------------------- CrossAttention *)
\* In this section a tensor is [name |-> its identity, shape |-> its shape].

RECURSIVE Numel(_)
\* the number of elements of a tensor of the given shape
Numel(shape) == IF shape = <<>> THEN 1 ELSE Head(shape) * Numel(Tail(shape))

Last(shape) == shape[Len(shape)]
Prefix(shape) == SubSeq(shape, 1, Len(shape) - 1)

\* nn.Linear(in_features, out_features) applied to a tensor of shape x
Linear(x, in_features, out_features) ==
    IF Len(x) = 0 \/ Last(x) # in_features THEN Raise("RuntimeError")
    ELSE Return(Append(Prefix(x), out_features))

\* Tensor.reshape(shape) of a tensor of shape x, no -1 in shape
Reshape(x, shape) ==
    IF Numel(x) # Numel(shape) THEN Raise("RuntimeError") ELSE Return(shape)

\* m broadcasts to shape: aligned at the right, every size is 1 or equal
Broadcastable(m, shape) ==
    /\ Len(m) <= Len(shape)
    /\ \A i \in 1..Len(m) :
        m[i] \in {1, shape[Len(shape) - Len(m) + i]}

\* apply_rotary_emb on shapes, for a table whose last dimension is >= 1.
\* x.reshape(x.shape[:-1] + (-1, 2)) raises when the last dimension is odd
\* and when x has no elements (the -1 is then ambiguous); torch.chunk(t, 2,
\* -1) gives chunks of ceil(L/2) and L - ceil(L/2) columns, a single chunk
\* when L = 1, and the unpacking then raises.
apply_rotary_emb_shape(x, freqs_cis) ==
    IF freqs_cis.none THEN Return(x)
    ELSE LET known == Numel(Prefix(x)) * 2
             L == Last(freqs_cis.v)
             size == (L + 1) \div 2
         IN  IF known = 0 \/ Numel(x) % known # 0 THEN Raise("RuntimeError")
             ELSE IF L - size = 0 THEN Raise("ValueError")
             ELSE LET x_r == Append(Prefix(x), Numel(x) \div known)
                      freqs_cos == reshape_for_broadcast(
                          Append(Prefix(freqs_cis.v), size), x_r)
                      freqs_sin == reshape_for_broadcast(
                          Append(Prefix(freqs_cis.v), L - size), x_r)
                  IN  IF ~freqs_cos.ok THEN freqs_cos
                      ELSE IF ~freqs_sin.ok THEN freqs_sin
                      ELSE Return(x)

\* CrossAttention.__init__ without the divisibility assertion
CrossAttention_init_unchecked(cls, dim, num_heads, flash) ==
    Return([built |-> TRUE, cls |-> cls, dim |-> dim, num_heads |-> num_heads,
            head_dim |-> dim \div num_heads, flash |-> flash])

\* CrossAttention.__init__(dim, num_heads): the module object, or the failed
\* assertion.  dim is the in/out width of the q and proj layers; flash is
\* whether torch has scaled_dot_product_attention.
CrossAttention_init(cls, dim, num_heads, flash) ==
    IF dim % num_heads # 0 THEN Raise("AssertionError")
    ELSE Return([built |-> TRUE, cls |-> cls, dim |-> dim,
                 num_heads |-> num_heads, head_dim |-> dim \div num_heads,
                 flash |-> flash])

\* CrossAttention.forward(q_x, kv_x, q_freqs_cis, k_freqs_cis, mask): the
\* exception of the first step that raises, or the output's shape together
\* with the inputs it was computed from.  Both attention paths (fused and
\* manual) need the mask to broadcast to (bsz, heads, q_seqlen, kv_seqlen).
CrossAttention_forward(self, q_x, kv_x, q_freqs_cis, k_freqs_cis, mask) ==
    IF Len(q_x.shape) # 3 \/ Len(kv_x.shape) # 3 THEN Raise("ValueError")
    ELSE
    LET bsz == q_x.shape[1]
        q_seqlen == q_x.shape[2]
        ch == q_x.shape[3]
        kv_seqlen == kv_x.shape[2]
        H == self.num_heads
        D == self.head_dim
        q_lin == Linear(q_x.shape, self.dim, self.dim)
        q0 == Reshape(q_lin.val, <<bsz, q_seqlen, H, D>>)
        kv_lin == Linear(kv_x.shape, self.dim, 2 * self.dim)
        kv0 == Reshape(kv_lin.val, <<bsz, kv_seqlen, 2, H, D>>)
        k0 == <<bsz, kv_seqlen, H, D>>
        q == apply_rotary_emb_shape(q0.val, q_freqs_cis)
        k == apply_rotary_emb_shape(k0, k_freqs_cis)
        attn == <<bsz, H, q_seqlen, kv_seqlen>>
        x0 == <<bsz, H, q_seqlen, D>>
        x1 == Reshape(<<bsz, q_seqlen, H, D>>, <<bsz, q_seqlen, ch>>)
        x2 == Linear(x1.val, self.dim, self.dim)
    IN  IF ~q_lin.ok THEN q_lin
        ELSE IF ~q0.ok THEN q0
        ELSE IF ~kv_lin.ok THEN kv_lin
        ELSE IF ~kv0.ok THEN kv0
        ELSE IF ~q.ok THEN q
        ELSE IF ~k.ok THEN k
        ELSE IF ~mask.none /\ ~Broadcastable(mask.v, attn)
        THEN Raise("RuntimeError")
        ELSE IF ~x1.ok THEN x1
        ELSE IF ~x2.ok THEN x2
        ELSE Return([shape |-> x2.val,
                     from |-> [q |-> q_x.name, kv |-> kv_x.name,
                               q_rot |-> q_freqs_cis, k_rot |-> k_freqs_cis,
                               mask |-> mask, flash |-> self.flash]])

\* the super().forward arguments with the key table dropped
Attention_super_args_nokey(x, freqs_cis, mask) ==
    <<x, x, freqs_cis, NoneTensor, mask>>

\* the arguments Attention.forward hands to super().forward
Attention_super_args(x, freqs_cis, mask) ==
    <<x, x, freqs_cis, freqs_cis, mask>>

\* Attention.forward(x, freqs_cis, mask)
Attention_forward(self, x, freqs_cis, mask) ==
    LET a == Attention_super_args(x, freqs_cis, mask)
    IN  CrossAttention_forward(self, a[1], a[2], a[3], a[4], a[5])

(* ---------------------------------------------------------------- inputs *)
RECURSIVE SeqsOf(_, _)
\* all sequences of length n over S
SeqsOf(S, n) ==
    IF n = 0 THEN {<<>>}
    ELSE {Append(s, x) : s \in SeqsOf(S, n - 1), x \in S}

\* 1-d length tensors: one length per batch row
Lengths == UNION {SeqsOf(0..MaxLen, b) : b \in 1..MaxBatch}
OptWidths == {NoneInt} \cup {SomeInt(m) : m \in 0..MaxLen}

MaskArgs == [length : Lengths, max_length : OptWidths]

\* the caller builds the boolean mask with sequence_mask and hands it, as it
\* is (true = valid) or inverted (true = padding), to score_mask_from_bool_mask
BoolMaskArgs ==
    {[length |-> a.length, max_length |-> a.max_length, inverted |-> inv,
      bool_mask |-> IF inv
                    THEN Invert(sequence_mask(a.length, a.max_length))
                    ELSE sequence_mask(a.length, a.max_length)] :
        a \in MaskArgs, inv \in BOOLEAN}

\* scale values: the fractions n/d
Scales == [n : 0..MaxScaleNum, d : {1, 2}]
PosArgs ==
    UNION {[start : SeqsOf(0..MaxStart, b), scale : SeqsOf(Scales, b),
            length : 0..MaxPosLen, max_pos : 1..MaxPos] : b \in {1, 2}}

FFArgs ==
    [dim : 1..MaxFFDim, multiple_of : 1..MaxMultiple,
     hidden_dim : {NoneInt} \cup {SomeInt(h) : h \in 0..MaxHidden}]

Shapes(maxRank) == UNION {SeqsOf(1..MaxSize, r) : r \in 0..maxRank}
ReshapeArgs == [freqs_cis : Shapes(4), x : Shapes(MaxRank)]

FreqsArgs == [dim : 1..MaxFreqDim, end : 0..MaxEnd]

\* (cos, sin) entries of a table: four rotations, and one pair off the unit
\* circle (a table the caller filled with something else)
Angles ==
    {<<Frac(1, 1), Frac(0, 1)>>, <<Frac(0, 1), Frac(1, 1)>>,
     <<Frac(3, 5), Frac(4, 5)>>, <<Frac(-4, 5), Frac(3, 5)>>,
     <<Frac(1, 1), Frac(1, 1)>>}
\* a table row for `pairs` rotated pairs: the cosines, then the sines
TableRows(pairs) ==
    {[e \in 1..(2 * pairs) |->
        IF e <= pairs THEN a[e][1] ELSE a[e - pairs][2]] :
            a \in SeqsOf(Angles, pairs)}
\* x of shape (1, 1, 2 * pairs) with a table of the same shape, or no table
RotaryArgs ==
    UNION {[x : {<< <<v>> >> : v \in SeqsOf({-1, 0, 2}, 2 * pairs)},
            freqs_cis : {NoneTensor}
                        \cup {SomeTensor(<< <<r>> >>) : r \in TableRows(pairs)}] :
           pairs \in 1..MaxPairs}

InitArgs ==
    [cls : {"CrossAttention", "Attention"}, dim : 1..MaxDim,
     num_heads : 1..MaxHeads, flash : BOOLEAN]

\* rotary tables offered for a (bsz, len, heads, head_dim) tensor: none, one
\* row per batch element and position, or the 2-d (len, head_dim) table
TablesFor(bsz, len, head_dim) ==
    {NoneTensor, SomeTensor(<<bsz, len, head_dim>>),
     SomeTensor(<<len, head_dim>>)}
\* masks offered: none, or the (bsz, 1, 1, kv_len) bias of score_mask
MasksFor(bsz, kv_len) == {NoneTensor, SomeTensor(<<bsz, 1, 1, kv_len>>)}

(* --------------------------------------------------------------- actions *)
\* a pending call with its arguments; no module constructed yet
InitCall(f, A) ==
    /\ op = f
    /\ args \in A

Init ==
    /\ pc = "call"
    /\ module = [built |-> FALSE]
    /\ result = Return(<<>>)
    /\ \/ InitCall("sequence_mask", MaskArgs)
       \/ InitCall("score_mask", MaskArgs)
       \/ InitCall("score_mask_from_bool_mask", BoolMaskArgs)
       \/ InitCall("get_pos_embed_indices", PosArgs)
       \/ InitCall("FeedForward.__init__", FFArgs)
       \/ InitCall("reshape_for_broadcast", ReshapeArgs)
       \/ InitCall("precompute_freqs_cis", FreqsArgs)
       \/ InitCall("apply_rotary_emb", RotaryArgs)
       \/ InitCall("CrossAttention.__init__", InitArgs)

CallSequenceMask ==
    /\ pc = "call"
    /\ op = "sequence_mask"
    /\ result' = Return(sequence_mask(args.length, args.max_length))
    /\ pc' = "done"
    /\ UNCHANGED <<module, op, args>>

CallScoreMask ==
    /\ pc = "call"
    /\ op = "score_mask"
    /\ result' = Return(score_mask(args.length, args.max_length))
    /\ pc' = "done"
    /\ UNCHANGED <<module, op, args>>

CallScoreMaskFromBoolMask ==
    /\ pc = "call"
    /\ op = "score_mask_from_bool_mask"
    /\ result' = Return(score_mask_from_bool_mask(args.bool_mask))
    /\ pc' = "done"
    /\ UNCHANGED <<module, op, args>>

CallGetPosEmbedIndices ==
    /\ pc = "call"
    /\ op = "get_pos_embed_indices"
    /\ result' = Return(get_pos_embed_indices(args.start, args.length,
                                              args.max_pos, args.scale))
    /\ pc' = "done"
    /\ UNCHANGED <<module, op, args>>

ConstructFeedForward ==
    /\ pc = "call"
    /\ op = "FeedForward.__init__"
    /\ result' = Return(FeedForward_hidden(args.dim, args.hidden_dim,
                                           args.multiple_of))
    /\ pc' = "done"
    /\ UNCHANGED <<module, op, args>>

CallReshapeForBroadcast ==
    /\ pc = "call"
    /\ op = "reshape_for_broadcast"
    /\ result' = reshape_for_broadcast(args.freqs_cis, args.x)
    /\ pc' = "done"
    /\ UNCHANGED <<module, op, args>>

CallPrecomputeFreqsCis ==
    /\ pc = "call"
    /\ op = "precompute_freqs_cis"
    /\ result' = precompute_freqs_cis(args.dim, args.end)
    /\ pc' = "done"
    /\ UNCHANGED <<module, op, args>>

CallApplyRotaryEmb ==
    /\ pc = "call"
    /\ op = "apply_rotary_emb"
    /\ result' = Return(apply_rotary_emb(args.x, args.freqs_cis))
    /\ pc' = "done"
    /\ UNCHANGED <<module, op, args>>

\* CrossAttention(...) or Attention(...): the constructor runs
ConstructCrossAttention ==
    /\ pc = "call"
    /\ op = "CrossAttention.__init__"
    /\ LET r == CrossAttention_init(args.cls, args.dim, args.num_heads,
                                    args.flash)
       IN  /\ result' = r
           /\ module' = IF r.ok THEN r.val ELSE module
           /\ pc' = IF r.ok THEN "built" ELSE "done"
    /\ UNCHANGED <<op, args>>

\* forward of a CrossAttention module
CallCrossAttentionForward ==
    /\ pc = "built"
    /\ module.cls = "CrossAttention"
    /\ \E bsz \in 1..MaxBatch, q_len \in 0..MaxSeq, kv_len \in 0..MaxSeq :
       \E q_freqs_cis \in TablesFor(bsz, q_len, module.head_dim),
          k_freqs_cis \in TablesFor(bsz, kv_len, module.head_dim),
          mask \in MasksFor(bsz, kv_len) :
          LET q_x == [name |-> "q_x", shape |-> <<bsz, q_len, module.dim>>]
              kv_x == [name |-> "kv_x", shape |-> <<bsz, kv_len, module.dim>>]
          IN  /\ op' = "CrossAttention.forward"
              /\ args' = [q_x |-> q_x, kv_x |-> kv_x,
                          q_freqs_cis |-> q_freqs_cis,
                          k_freqs_cis |-> k_freqs_cis, mask |-> mask]
              /\ result' = CrossAttention_forward(module, q_x, kv_x,
                                                  q_freqs_cis, k_freqs_cis, mask)
    /\ pc' = "done"
    /\ UNCHANGED module

\* forward of an Attention module
CallAttentionForward ==
    /\ pc = "built"
    /\ module.cls = "Attention"
    /\ \E bsz \in 1..MaxBatch, len \in 0..MaxSeq :
       \E freqs_cis \in TablesFor(bsz, len, module.head_dim),
          mask \in MasksFor(bsz, len) :
          LET x == [name |-> "x", shape |-> <<bsz, len, module.dim>>]
          IN  /\ op' = "Attention.forward"
              /\ args' = [x |-> x, freqs_cis |-> freqs_cis, mask |-> mask]
              /\ result' = Attention_forward(module, x, freqs_cis, mask)
    /\ pc' = "done"
    /\ UNCHANGED module

Next ==
    \/ CallSequenceMask
    \/ CallScoreMask
    \/ CallScoreMaskFromBoolMask
    \/ CallGetPosEmbedIndices
    \/ ConstructFeedForward
    \/ CallReshapeForBroadcast
    \/ CallPrecomputeFreqsCis
    \/ CallApplyRotaryEmb
    \/ ConstructCrossAttention
    \/ CallCrossAttentionForward
    \/ CallAttentionForward

Spec == Init /\ [][Next]_vars

(* ================================================================ claims *)
Done(f) == pc = "done" /\ op = f

\* t is a 4-d tensor of shape (B, 1, 1, W)
HasShapeB11W(t, B, W) ==
    /\ Len(t) = B
    /\ \A i \in 1..B :
        /\ Len(t[i]) = 1
        /\ Len(t[i][1]) = 1
        /\ Len(t[i][1][1]) = W

\* the width a mask call asks for: max_length, or the maximum of the lengths
\* (an element of length that no element exceeds) when max_length is omitted
IsWidth(W, a) ==
    IF a.max_length.none
    THEN /\ \E i \in 1..Len(a.length) : a.length[i] = W
         /\ \A i \in 1..Len(a.length) : a.length[i] <= W
    ELSE W = a.max_length.v

\* C2: sequence_mask(lengths, max_length) returns a boolean matrix of shape
\* (batch, max_length) whose entry (i, j) is true iff j < lengths[i]; the width
\* is the maximum of lengths when max_length is omitted; and
\* sequence_mask([3,5], 5) is [[T,T,T,F,F],[T,T,T,T,T]].
C2_SequenceMask ==
    Done("sequence_mask") =>
        /\ result.ok
        /\ Len(result.val) = Len(args.length)
        /\ \A i \in 1..Len(args.length) :
            /\ IsWidth(Len(result.val[i]), args)
            /\ \A j \in 0..(Len(result.val[i]) - 1) :
                result.val[i][j + 1] <=> (j < args.length[i])
        /\ (args.length = <<3, 5>> /\ args.max_length = SomeInt(5)) =>
            result.val = << <<TRUE, TRUE, TRUE, FALSE, FALSE>>,
                            <<TRUE, TRUE, TRUE, TRUE, TRUE>> >>

C2_Witness ==
    /\ Done("sequence_mask")
    /\ args.length = <<3, 5>>
    /\ args.max_length = SomeInt(5)
    /\ result.val[1] = <<TRUE, TRUE, TRUE, FALSE, FALSE>>

\* C3: score_mask(lengths, max_length) returns a tensor of shape
\* (batch, 1, 1, max_length) whose entry for (i, j) is 0 when j < lengths[i]
\* and -infinity when j >= lengths[i]; no entry is anything else.
C3_ScoreMask ==
    Done("score_mask") =>
        /\ result.ok
        /\ \E W \in 0..(MaxLen + 1) :
            /\ IsWidth(W, args)
            /\ HasShapeB11W(result.val, Len(args.length), W)
        /\ \A i \in 1..Len(result.val) :
            \A j \in 0..(Len(result.val[i][1][1]) - 1) :
                LET e == result.val[i][1][1][j + 1]
                IN  /\ e \in {Zero, NegInf}
                    /\ (j < args.length[i]) => e = Zero
                    /\ (j >= args.length[i]) => e = NegInf

C3_Witness ==
    /\ Done("score_mask")
    /\ args.length = <<1, 2>>
    /\ args.max_length = SomeInt(2)
    /\ result.val = << << << <<Zero, NegInf>> >> >>, << << <<Zero, Zero>> >> >> >>

\* C4 as stated: given a validity mask (true = attendable), the bias is 0 at
\* the valid positions and -infinity at the invalid ones, i.e.
\* score_mask_from_bool_mask(sequence_mask(L, M)) = score_mask(L, M).
C4_Original ==
    (Done("score_mask_from_bool_mask") /\ ~args.inverted) =>
        /\ result.ok
        /\ result.val = score_mask(args.length, args.max_length)
        /\ \A i \in 1..Len(args.bool_mask) :
            \A j \in 1..Len(args.bool_mask[i]) :
                result.val[i][1][1][j] =
                    (IF args.bool_mask[i][j] THEN Zero ELSE NegInf)

\* C4 amended: score_mask_from_bool_mask turns a boolean mask of shape
\* (batch, len) into a bias of shape (batch, 1, 1, len) that is -infinity
\* where the mask is TRUE and 0 where it is false (true = masked position);
\* so score_mask_from_bool_mask(~sequence_mask(L, M)) = score_mask(L, M).
C4_ScoreMaskFromBoolMask ==
    Done("score_mask_from_bool_mask") =>
        /\ result.ok
        /\ Len(result.val) = Len(args.bool_mask)
        /\ \A i \in 1..Len(args.bool_mask) :
            /\ HasShapeB11W(result.val, Len(args.bool_mask), Len(args.bool_mask[i]))
            /\ \A j \in 1..Len(args.bool_mask[i]) :
                result.val[i][1][1][j] =
                    (IF args.bool_mask[i][j] THEN NegInf ELSE Zero)
        /\ args.inverted =>
            result.val = score_mask(args.length, args.max_length)

C4_Witness ==
    /\ Done("score_mask_from_bool_mask")
    /\ args.inverted
    /\ args.length = <<1, 2>>
    /\ args.max_length = SomeInt(2)
    /\ result.val = << << << <<Zero, NegInf>> >> >>, << << <<Zero, Zero>> >> >> >>

\* C5: get_pos_embed_indices(start, length, max_pos, scale) returns a
\* (batch, length) matrix whose entry (i, j) is start[i] + floor(j * scale[i])
\* when that is < max_pos and max_pos - 1 otherwise; so every index is at most
\* max_pos - 1, and start=[0], length=4, max_pos=3, scale 1 gives [0,1,2,2].
C5_PosEmbedIndices ==
    Done("get_pos_embed_indices") =>
        /\ result.ok
        /\ Len(result.val) = Len(args.start)
        /\ \A i \in 1..Len(args.start) :
            /\ Len(result.val[i]) = args.length
            /\ \A j \in 0..(args.length - 1) :
                \* f = floor(j * n / d):  f * d <= j * n < (f + 1) * d
                \E f \in 0..(MaxPosLen + 1) * (MaxScaleNum + 1) :
                    /\ f * args.scale[i].d <= j * args.scale[i].n
                    /\ j * args.scale[i].n < (f + 1) * args.scale[i].d
                    /\ result.val[i][j + 1] =
                         (IF args.start[i] + f < args.max_pos
                          THEN args.start[i] + f ELSE args.max_pos - 1)
                    /\ result.val[i][j + 1] <= args.max_pos - 1
        /\ (/\ args.start = <<0>> /\ args.length = 4 /\ args.max_pos = 3
            /\ args.scale = <<[n |-> 1, d |-> 1]>>) =>
                result.val = << <<0, 1, 2, 2>> >>

C5_Witness ==
    /\ Done("get_pos_embed_indices")
    /\ args.start = <<0>>
    /\ args.length = 4
    /\ args.max_pos = 3
    /\ args.scale = <<[n |-> 1, d |-> 1]>>
    /\ result.val = << <<0, 1, 2, 2>> >>

\* C9: with hidden_dim None the hidden width is the smallest multiple of
\* multiple_of that is >= floor(8 * dim / 3); an explicit hidden_dim is used
\* unchanged.
C9_FeedForwardHidden ==
    Done("FeedForward.__init__") =>
        /\ result.ok
        /\ IF args.hidden_dim.none
           THEN \E f \in 0..(3 * MaxFFDim + 3) :
                    /\ 3 * f <= 8 * args.dim
                    /\ 8 * args.dim < 3 * (f + 1)
                    /\ result.val % args.multiple_of = 0
                    /\ result.val >= f
                    /\ result.val - args.multiple_of < f
           ELSE result.val = args.hidden_dim.v

C9_Witness ==
    /\ Done("FeedForward.__init__")
    /\ args.hidden_dim.none
    /\ args.dim = 2
    /\ args.multiple_of = 4
    /\ result.val = 8

\* C6: reshape_for_broadcast(freqs_cis, x) branches on the rank of x alone:
\* rank 3 returns the table unchanged provided its shape equals x's; rank 4
\* with x of shape (B, T, H, D) requires the table's shape to be (B, T, D) and
\* returns it as (B, T, 1, D); every other rank, and every shape mismatch in
\* ranks 3 and 4, raises.
C6_ReshapeForBroadcast ==
    Done("reshape_for_broadcast") =>
        LET x == args.x
            t == args.freqs_cis
        IN  /\ Len(x) = 3 =>
                /\ result.ok <=> (t = x)
                /\ result.ok => result.val = t
            /\ Len(x) = 4 =>
                /\ result.ok <=> (t = <<x[1], x[2], x[4]>>)
                /\ result.ok => result.val = <<x[1], x[2], 1, x[4]>>
            /\ Len(x) \notin {3, 4} => ~result.ok
            /\ ~result.ok => result.err \in {"AssertionError", "ValueError"}

C6_Witness ==
    /\ Done("reshape_for_broadcast")
    /\ args.x = <<2, 1, 2, 2>>
    /\ args.freqs_cis = <<2, 1, 2>>
    /\ result.ok
    /\ result.val = <<2, 1, 1, 2>>

\* C7: for every even dim >= 2 and every end >= 0, precompute_freqs_cis(dim,
\* end) returns without error a table of shape (end, dim) whose first dim/2
\* columns are the cosine entries and whose last dim/2 columns are the sine
\* entries (each of which lies in [-1, 1]).
C7_PrecomputeFreqsCis ==
    (Done("precompute_freqs_cis") /\ args.dim >= 2 /\ args.dim % 2 = 0) =>
        /\ result.ok
        /\ Len(result.val) = args.end
        /\ \A t \in 1..args.end :
            /\ Len(result.val[t]) = args.dim
            /\ \A e \in 1..args.dim :
                result.val[t][e].fn =
                    (IF 2 * e <= args.dim THEN "cos" ELSE "sin")

\* C8: apply_rotary_emb with a table keeps the input's shape, and every output
\* pair (elements 2k, 2k+1 of the last dimension) built from the input pair
\* (x_r, x_i) and table entries (c, s) with c^2 + s^2 = 1 is
\* (x_r*c - x_i*s, x_r*s + x_i*c) and has the squared 2-norm x_r^2 + x_i^2.
C8_RotaryNorm ==
    (Done("apply_rotary_emb") /\ ~args.freqs_cis.none) =>
        /\ result.ok
        /\ Len(result.val) = Len(args.x)
        /\ \A b \in 1..Len(args.x) :
            /\ Len(result.val[b]) = Len(args.x[b])
            /\ \A t \in 1..Len(args.x[b]) :
                LET xv == args.x[b][t]
                    ov == result.val[b][t]
                    tv == args.freqs_cis.v[b][t]
                    half == Len(xv) \div 2
                IN  /\ Len(ov) = Len(xv)
                    /\ \A k \in 1..half :
                        LET c == tv[k]
                            sn == tv[half + k]
                            o_r == ov[2 * k - 1]
                            o_i == ov[2 * k]
                            x_r == xv[2 * k - 1]
                            x_i == xv[2 * k]
                        IN  \* c^2 + s^2 = 1
                            (c.n * c.n * sn.d * sn.d + sn.n * sn.n * c.d * c.d
                                = c.d * c.d * sn.d * sn.d) =>
                            \* o_r^2 + o_i^2 = x_r^2 + x_i^2
                            (o_r.n * o_r.n * o_i.d * o_i.d
                               + o_i.n * o_i.n * o_r.d * o_r.d
                                = (x_r * x_r + x_i * x_i)
                                    * o_r.d * o_r.d * o_i.d * o_i.d)

C8_Witness ==
    /\ Done("apply_rotary_emb")
    /\ args.x = << << <<2, -1, 0, 2>> >> >>
    /\ ~args.freqs_cis.none
    /\ args.freqs_cis.v =
         << << <<Frac(3, 5), Frac(-4, 5), Frac(4, 5), Frac(3, 5)>> >> >>
    /\ result.val[1][1][1] = Frac(50, 25)
    /\ result.val[1][1][2] = Frac(25, 25)

\* a rotary table apply_rotary_emb accepts for a (bsz, len, heads, head_dim)
\* tensor: none, or one of shape (bsz, len, head_dim) when head_dim is even
\* and the tensor is not empty
TableAccepted(t, bsz, len, head_dim) ==
    \/ t.none
    \/ /\ t.v = <<bsz, len, head_dim>>
       /\ head_dim % 2 = 0
       /\ bsz * len > 0

\* C1: construction fails (assertion) exactly when dim % num_heads # 0;
\* otherwise it succeeds with head_dim * num_heads = dim, and forward on a
\* query of shape (batch, q_len, dim) and a key/value input of shape (batch,
\* kv_len, dim) returns a tensor of shape (batch, q_len, dim) whatever kv_len
\* is (given rotary tables that apply_rotary_emb accepts: forward returns
\* exactly then).
C1_CrossAttentionShape ==
    /\ (op = "CrossAttention.__init__" /\ pc # "call") =>
        /\ result.ok <=> (args.dim % args.num_heads = 0)
        /\ ~result.ok => (result.err = "AssertionError" /\ ~module.built)
        /\ result.ok =>
            /\ module.built
            /\ module.head_dim * module.num_heads = args.dim
    /\ Done("CrossAttention.forward") =>
        LET bsz == args.q_x.shape[1]
            q_len == args.q_x.shape[2]
            kv_len == args.kv_x.shape[2]
        IN  /\ result.ok <=>
                /\ TableAccepted(args.q_freqs_cis, bsz, q_len, module.head_dim)
                /\ TableAccepted(args.k_freqs_cis, bsz, kv_len, module.head_dim)
            /\ result.ok => result.val.shape = <<bsz, q_len, module.dim>>

C1_Witness ==
    /\ Done("CrossAttention.forward")
    /\ module.dim = 4
    /\ module.num_heads = 2
    /\ args.q_x.shape = <<2, 1, 4>>
    /\ args.kv_x.shape = <<2, 2, 4>>
    /\ args.k_freqs_cis = SomeTensor(<<2, 2, 2>>)
    /\ ~args.mask.none
    /\ result.ok
    /\ result.val.shape = <<2, 1, 4>>

\* C10: Attention.forward(x, freqs_cis, mask) returns exactly what
\* CrossAttention.forward returns on the same module for x as query and
\* key/value source, freqs_cis as query and key table, and the same mask.
C10_AttentionDelegates ==
    Done("Attention.forward") =>
        LET r == CrossAttention_forward(module, args.x, args.x, args.freqs_cis,
                                        args.freqs_cis, args.mask)
        IN  /\ result.ok = r.ok
            /\ result.err = r.err
            /\ result.ok => result.val = r.val

C10_Witness ==
    /\ Done("Attention.forward")
    /\ args.x.shape = <<1, 2, 4>>
    /\ args.freqs_cis = SomeTensor(<<1, 2, 2>>)
    /\ ~args.mask.none
    /\ result.ok
    /\ result.val.shape = <<1, 2, 4>>
    /\ result.val.from.kv = "x"
    /\ result.val.from.k_rot = args.freqs_cis

====
